---- MODULE Spec2Model ----
(***************************************************************************)
(* NetVision backend: the measurement session engine of                    *)
(* src/netvision-backend/src/websocket/measurementHandler.js, the quality  *)
(* scoring of src/netvision-backend/src/Utils/qualityScore.js and the      *)
(* single-measurement record path of                                       *)
(* src/netvision-backend/src/controllers/ConnecitivityController.js.       *)
(*                                                                         *)
(* Every websocket connection runs handleConnection once; its 'message'    *)
(* listener is an async function, so a handler runs synchronously up to    *)
(* its first await and its continuation runs later, when the awaited       *)
(* promise settles.  The model has one action for the synchronous part of  *)
(* each branch of the listener and one action for each continuation; the   *)
(* continuations that are waiting are kept in pending[c].                  *)
(***************************************************************************)
EXTENDS Integers, Sequences, FiniteSets, Bags, TLC

\* ------------------------------------------------------------------ bounds
\* A run of the model is one of seven kinds (see Runs): the bounds are the
\* numbers of client messages and of heartbeat ticks in a run of each kind.
\* Any message with any token and payload, one connection:
MaxMsgs == 3
\* Valid traffic (authenticate, measurement, stop), one connection:
MaxCoreMsgs == 5
\* Valid traffic, two connections:
MaxPairMsgs == 4
\* Heartbeat ticks, and the messages beside them, one connection:
MaxBeats == 2
MaxBeatMsgs == 2
\* Calls of the record route and messages of one connection beside them:
MaxHttpMsgs == 3
\* Calls of the record route and of findBestZone, no connection:
MaxZoneMsgs == 3
\* Valid traffic with measurements that differ, one connection:
MaxStatsMsgs == 4
\* How far beyond each end of its range an argument of a scoring call goes:
ScoreMargin == 1

\* ------------------------------------------------------- program constants
\* CONSTANTS.WS close code used at measurementHandler.js:101
AuthFailedCode == 4001
\* CONSTANTS.GEO.DEFAULT_RADIUS_M / MAX_RADIUS_M
DEFAULT_RADIUS_M == 5000
MAX_RADIUS_M == 50000
\* CONSTANTS.QUALITY_SCORE.MIN_SCORE / MAX_SCORE
MIN_SCORE == 0
MAX_SCORE == 100

Conns == {"c1", "c2"}
\* The connections that are opened before c (the model opens them in order).
Earlier(c) == IF c = "c2" THEN {"c1"} ELSE {}
Users == {"uA", "uB"}
\* `let userId = null` (measurementHandler.js:53); also "no entry" of the Map
Null == "null"

\* A JS value that is not a number (undefined, a string): every comparison
\* with it is false and typeof is not 'number'.
NotANumber == 0 - 9999
IsNumber(x) == x # NotANumber
\* JS `a < b` and `a > b` on a possibly non-numeric operand.
Lt(a, b) == IsNumber(a) /\ IsNumber(b) /\ a < b
Gt(a, b) == IsNumber(a) /\ IsNumber(b) /\ a > b
\* JS `x || 0`
OrZero(x) == IF IsNumber(x) THEN x ELSE 0

Abs(x) == IF x < 0 THEN 0 - x ELSE x
Max(a, b) == IF a > b THEN a ELSE b
Min(a, b) == IF a < b THEN a ELSE b

\* A variant of calculateQualityScore without the checks of lines 18-36.
QualityScoreNeverThrows(rsrq, sinr, cqi) == FALSE

\* ------------------------------------------------------------ quality score
\* calculateQualityScore throws (typeof or range check, lines 18-36).
QualityScoreThrows(rsrq, sinr, cqi) ==
    \/ ~IsNumber(rsrq) \/ ~IsNumber(sinr) \/ ~IsNumber(cqi)
    \/ rsrq < -20 \/ rsrq > -3
    \/ sinr < -10 \/ sinr > 30
    \/ cqi < 0 \/ cqi > 15

\* Math.round of a non-negative value given in tenths.
RoundTenths(t) == (t + 5) \div 10

\* cqiScore = (cqi / 15) * 100 * 0.3 (line 40) in IEEE-754 doubles, for an
\* integer cqi: exactly 2*cqi, except that for these cqi the product is one
\* unit in the last place below it (5 gives 9.999999999999998).
CqiScoreShort(cqi) == cqi \in {5, 7, 10, 11, 14}
\* sinrScore + cqiScore (line 44) keeps that deficit as long as the sum stays
\* below the power of two above cqiScore (16, or 32 from cqiScore 16 on);
\* from there on the sum rounds to the exact value.  sinr * 0.5 and
\* |rsrq| * 0.2 are exact for integers and the subtraction keeps the deficit.
ScoreShort(sinr, cqi) ==
    /\ CqiScoreShort(cqi)
    /\ 5 * sinr + 20 * cqi < (IF 2 * cqi < 16 THEN 160 ELSE 320)

\* A variant of calculateQualityScore in which rsrqScore is added.
QualityScoreRsrqAdded(rsrq, sinr, cqi) ==
    RoundTenths(Max(MIN_SCORE * 10, Min(MAX_SCORE * 10,
                    5 * sinr + 20 * cqi + 2 * Abs(rsrq))))

\* calculateQualityScore lines 38-52 for integer metrics, in tenths:
\* sinr*0.5 + (cqi/15)*100*0.3 - |rsrq|*0.2, clamped to [0,100], then
\* Math.round: a score that is short of n + 0.5 rounds down to n.
calculateQualityScore(rsrq, sinr, cqi) ==
    LET raw == 5 * sinr + 20 * cqi - 2 * Abs(rsrq)
        clamped == Max(MIN_SCORE * 10, Min(MAX_SCORE * 10, raw))
    IN  IF ScoreShort(sinr, cqi) /\ clamped = raw /\ clamped % 10 = 5
        THEN clamped \div 10
        ELSE RoundTenths(clamped)

\* A variant of calculateEnhancedQualityScore that takes the signal quality
\* whole instead of half of it.
EnhancedScoreUnweighted(rsrq, sinr, cqi, dl, ul) ==
    RoundTenths(Max(0, Min(1000, 10 * calculateQualityScore(rsrq, sinr, cqi)
                                 + 3 * Min(100, dl) + 2 * Min(100, 2 * ul))))

\* calculateEnhancedQualityScore (qualityScore.js:168-182), in tenths:
\* signalQuality*0.5 + min(100, dl/100*100)*0.3 + min(100, ul/50*100)*0.2.
\* The speeds of the model are multiples of 10, for which the doubles of
\* these products are exact.
calculateEnhancedQualityScore(rsrq, sinr, cqi, dl, ul) ==
    LET signalQuality == calculateQualityScore(rsrq, sinr, cqi)
        normalizedDownload == Min(100, dl)
        normalizedUpload == Min(100, 2 * ul)
        enhanced == 5 * signalQuality + 3 * normalizedDownload + 2 * normalizedUpload
    IN  RoundTenths(Max(0, Min(1000, enhanced)))

\* calculateWiFiQualityScore (qualityScore.js:207-221), in tenths:
\* min(100, dl/100*100)*0.5 + min(100, ul/50*100)*0.3
\* + max(0, 100 - latency/200*100)*0.2; a missing argument defaults to 0.
calculateWiFiQualityScore(dl, ul, lat) ==
    LET normalizedDownload == Min(100, OrZero(dl))
        normalizedUpload == Min(100, 2 * OrZero(ul))
        twiceNormalizedLatency == Max(0, 200 - OrZero(lat))
        wifiScore == 5 * normalizedDownload + 3 * normalizedUpload + twiceNormalizedLatency
    IN  RoundTenths(Max(0, Min(1000, wifiScore)))

\* getSignalQuality (qualityScore.js:60-76) with the thresholds of
\* CONSTANTS.SIGNAL_QUALITY (80, 60, 40, 20, 0).
getSignalQuality(score) ==
    IF score >= 80 THEN "Excellent"
    ELSE IF score >= 60 THEN "Good"
    ELSE IF score >= 40 THEN "Fair"
    ELSE IF score >= 20 THEN "Poor"
    ELSE "Very Poor"

\* The quality assessment of generateHumanMessage (humanMessages, lines
\* 14-25): the word after 'Your connection is '.
HumanQualityWord(qualityScore) ==
    IF qualityScore >= 80 THEN "excellent"
    ELSE IF qualityScore >= 60 THEN "good"
    ELSE IF qualityScore >= 40 THEN "fair"
    ELSE IF qualityScore >= 20 THEN "poor"
    ELSE "very poor"

\* qualityLabel.toLowerCase() of generateWiFiMessage (qualityScore.js:
\* 232-235, 255): the word after 'Your Wi-Fi connection is '.
WiFiQualityWord(qualityScore) ==
    IF qualityScore >= 80 THEN "excellent"
    ELSE IF qualityScore >= 60 THEN "good"
    ELSE IF qualityScore >= 40 THEN "fair"
    ELSE "poor"

\* ------------------------------------------------------------------ inputs
\* Coordinates are in hundredths of a degree.
\* isValidCoordinate (geoUtils.js, not under src/): lat in [-90,90] and
\* lon in [-180,180], inclusive.
isValidCoordinate(lat, lon) ==
    /\ IsNumber(lat) /\ IsNumber(lon)
    /\ lat >= -9000 /\ lat <= 9000
    /\ lon >= -18000 /\ lon <= 18000

\* `networkType` of a payload that has none.
NoNetworkType == "none"
\* A measurement payload; latency and networkType are absent unless set.
Payload(rsrq, sinr, cqi, lat, lon, dl, ul) ==
    [rsrq |-> rsrq, sinr |-> sinr, cqi |-> cqi, latitude |-> lat,
     longitude |-> lon, downloadSpeed |-> dl, uploadSpeed |-> ul,
     latency |-> NotANumber, networkType |-> NoNetworkType]

\* The measurement payloads a client sends in the model.
GoodSample == Payload(-5, 20, 12, 0, 0, NotANumber, NotANumber)
FairSample == Payload(-10, 30, 15, 0, 2, 40, 10)
BadCoordSample == Payload(-5, 20, 12, 9100, 0, NotANumber, NotANumber)
OutOfRangeSample == Payload(-25, 20, 12, 0, 0, NotANumber, NotANumber)
MissingRadioSample == Payload(-5, 20, NotANumber, 0, 0, NotANumber, NotANumber)
\* A valid measurement taken 50 units (55.6 km) east of the others.
FarSample == Payload(-5, 25, 14, 0, 50, NotANumber, NotANumber)
\* The best radio metrics of the ranges.
PeakSample == Payload(-3, 30, 15, 0, 0, NotANumber, NotANumber)
NoPayload == Payload(NotANumber, NotANumber, NotANumber, NotANumber,
                     NotANumber, NotANumber, NotANumber)

\* A Wi-Fi measurement: a valid coordinate, speeds and latency, no radio
\* metrics.
WifiSample ==
    [Payload(NotANumber, NotANumber, NotANumber, 0, 0, 50, 20)
        EXCEPT !.latency = 20, !.networkType = "wifi"]

ValidSamples == {GoodSample, FairSample}
InvalidSamples == {BadCoordSample, OutOfRangeSample, MissingRadioSample}
Samples == ValidSamples \cup InvalidSamples
\* The bodies sent to the HTTP endpoints, and the radius of a findBestZone
\* call (none or 60 km).
HttpSamples == ValidSamples \cup {BadCoordSample, FarSample, WifiSample}
\* The payloads of `measurement` messages.
SessionSamples == Samples \cup {WifiSample, PeakSample}

\* schemas.measurement (validation.js:20-30): the radio metrics and the
\* coordinates are required and ranged, the speeds optional and >= 0.
SchemaAccepts(body) ==
    /\ IsNumber(body.rsrq) /\ body.rsrq >= -20 /\ body.rsrq <= -3
    /\ IsNumber(body.sinr) /\ body.sinr >= -10 /\ body.sinr <= 30
    /\ IsNumber(body.cqi) /\ body.cqi >= 0 /\ body.cqi <= 15
    /\ IsNumber(body.latitude) /\ body.latitude >= -9000 /\ body.latitude <= 9000
    /\ IsNumber(body.longitude) /\ body.longitude >= -18000 /\ body.longitude <= 18000
    /\ IsNumber(body.downloadSpeed) => body.downloadSpeed >= 0
    /\ IsNumber(body.uploadSpeed) => body.uploadSpeed >= 0
\* `stripUnknown: true` (validation.js:63-66): the keys the schema does not
\* name, latency and networkType among them, are removed from the body.
StripUnknown(body) ==
    [body EXCEPT !.latency = NotANumber, !.networkType = NoNetworkType]
Radii == {NotANumber, 60000}

\* Tokens of `authenticate` messages.
NoToken == "none"
Tokens == {"tokA", "tokB", "tokBad", "tokGone", NoToken}

\* ------------------------------------------------------- scoring calls
\* A call of a scoring function taken by itself: the function, its
\* arguments, and once it has returned or thrown, its outcome.
ScoreCall(fn, rsrq, sinr, cqi, dl, ul) ==
    [fn |-> fn, rsrq |-> rsrq, sinr |-> sinr, cqi |-> cqi, downloadSpeed |-> dl,
     uploadSpeed |-> ul, done |-> FALSE, threw |-> FALSE, score |-> 0, text |-> ""]
NoCalc == ScoreCall("none", 0, 0, 0, 0, 0)
Returned(call, score) == [call EXCEPT !.done = TRUE, !.score = score]
\* A call of a function that takes a score (getSignalQuality and the two
\* message generators), and the text it returned.
LabelCall(fn, score) == [ScoreCall(fn, -5, 20, 12, 0, 0) EXCEPT !.score = score]
ReturnedText(call, text) == [call EXCEPT !.done = TRUE, !.text = text]
Threw(call) == [call EXCEPT !.done = TRUE, !.threw = TRUE]

\* The arguments of calculateQualityScore: every integer of the ranges
\* RSRQ [-20,-3], SINR [-10,30], CQI [0,15] and ScoreMargin beyond each end,
\* the values -25 and 40, and a value that is not a number.
RsrqInputs == ((-20 - ScoreMargin)..(-3 + ScoreMargin)) \cup {-25, NotANumber}
SinrInputs == ((-10 - ScoreMargin)..(30 + ScoreMargin)) \cup {40, NotANumber}
CqiInputs == ((0 - ScoreMargin)..(15 + ScoreMargin)) \cup {NotANumber}
\* The arguments of calculateEnhancedQualityScore: the ends and some inner
\* values of each range, and speeds in Mbps up to beyond the caps (100 for
\* the download, 50 for the upload).
EnhancedRsrq == {-20, -12, -3}
EnhancedSinr == {-10, 0, 10, 20, 30}
EnhancedCqi == {0, 5, 10, 15}
Speeds == {0, 10, 20, 40, 50, 100, 120}
LabelFunctions == {"getSignalQuality", "generateHumanMessage", "generateWiFiMessage"}
ScoreCalls ==
    {ScoreCall("calculateQualityScore", r, s, q, 0, 0) :
        r \in RsrqInputs, s \in SinrInputs, q \in CqiInputs}
    \cup {LabelCall(fn, score) : fn \in LabelFunctions, score \in MIN_SCORE..MAX_SCORE}
    \cup {ScoreCall("calculateEnhancedQualityScore", r, s, q, dl, ul) :
            r \in EnhancedRsrq, s \in EnhancedSinr, q \in EnhancedCqi,
            dl \in Speeds, ul \in Speeds}

\* ------------------------------------------------------------------- state
VARIABLES
    readyState,         \* ws.readyState of each connection ("NONE" before it exists)
    closeCode,          \* the code ws.close was called with (0: not called)
    userId,             \* closure variable userId of handleConnection
    measurements,       \* closure variable measurements (the current array)
    heartbeatTimer,     \* TRUE while the setInterval timer is armed
    pending,            \* continuations of the async message listener that are waiting
    activeConnections,  \* the module-level Map userId -> ws
    store,              \* the documents persisted in ConnectivityData (a bag)
    sent,               \* the last message sent on each connection (ws.send)
    beats,              \* the heartbeat messages sent on each connection
    nRecv,              \* the number of 'message' events of each connection
    lastMsg,            \* the message of the last 'message' event of each connection
    sinceStop,          \* history: the elements pushed since the last `stop` arrived
    lastCall,           \* history: the last insert request made to ConnectivityData
    httpRes,            \* the last response of the HTTP record path
    flushed,            \* history: nRecv when a stop's insert last succeeded (0: never)
    fault,              \* history: the request whose call of the record store failed last
    left,               \* what the environment may still do in this run
    calc                \* a call of a scoring function taken by itself (ScoreSpec)

vars == <<readyState, closeCode, userId, measurements, heartbeatTimer, pending,
          activeConnections, store, sent, beats, nRecv, lastMsg, sinceStop,
          lastCall, httpRes, flushed, fault, left, calc>>

\* ----------------------------------------------------------------- records
\* The nearest integer of a / b for b > 0, a half going up (Math.round).
RoundDiv(a, b) == (2 * a + b) \div (2 * b)

RECURSIVE Sum(_)
\* seq.reduce((sum, x) => sum + x, 0)
Sum(seq) == IF seq = <<>> THEN 0 ELSE Head(seq) + Sum(Tail(seq))

\* The statistics of a session_summary (measurementHandler.js:306-316,
\* 325-332) over the array arr: averageQuality is Math.round of the mean;
\* the other averages are parseFloat of toFixed(2) of the mean and are kept
\* in hundredths.
Statistics(arr) ==
    LET n == Len(arr)
        Hundredths(seq) == RoundDiv(100 * Sum(seq), n)
    IN  [averageQuality |-> RoundDiv(Sum([i \in 1..n |-> arr[i].qualityScore]), n),
         averageRsrq |-> Hundredths([i \in 1..n |-> arr[i].rsrq]),
         averageSinr |-> Hundredths([i \in 1..n |-> arr[i].sinr]),
         averageCqi |-> Hundredths([i \in 1..n |-> arr[i].cqi]),
         averageDownloadSpeed |-> Hundredths([i \in 1..n |-> arr[i].downloadSpeed]),
         averageUploadSpeed |-> Hundredths([i \in 1..n |-> arr[i].uploadSpeed])]
NoStatistics ==
    [averageQuality |-> 0, averageRsrq |-> 0, averageSinr |-> 0, averageCqi |-> 0,
     averageDownloadSpeed |-> 0, averageUploadSpeed |-> 0]

\* A message sent to the client.  req is the number of the client message it
\* answers (0 for the connection acknowledgement).
Out(type, req, text, count, saved, score, hasData) ==
    [type |-> type, req |-> req, text |-> text, count |-> count,
     saved |-> saved, score |-> score, hasData |-> hasData, bestScore |-> 0,
     statistics |-> NoStatistics]
\* A measurement_response (measurementHandler.js:250-265): the score of the
\* measurement and the best zone (bestZone || {hasData: false}).
ZoneOut(req, score, bestZone) ==
    [Out("measurement_response", req, "", 0, 0, score, bestZone.hasData)
        EXCEPT !.bestScore = bestZone.qualityScore]
ErrorOut(req, text) == Out("error", req, text, 0, 0, 0, FALSE)
\* A session_summary (measurementHandler.js:318-335) computed over arr after
\* `saved` documents were inserted.
SummaryOut(req, arr, saved) ==
    [Out("session_summary", req, "", Len(arr), saved, 0, FALSE)
        EXCEPT !.statistics = Statistics(arr)]
NoOut == Out("none", 0, "", 0, 0, 0, FALSE)

\* A client message: its type, the token of an `authenticate`, the payload
\* of a `measurement`.  A call of the record path is kept the same way, with
\* its user and its saveOnStop flag.
Request(type, token, payload, uid, save) ==
    [type |-> type, token |-> token, payload |-> payload, uid |-> uid, save |-> save,
     radius |-> NotANumber]
\* A call of findBestZone: the coordinates of payload and req.body.radius.
ZoneRequest(uid, payload, radius) ==
    [Request("bestZone", NoToken, payload, uid, FALSE) EXCEPT !.radius = radius]
Msg(type, token, payload) == Request(type, token, payload, Null, FALSE)
NoMsg == Msg("none", NoToken, NoPayload)

\* An element of the measurements array (measurementHandler.js:234-244).
\* seq is the number of the message that carried it; it stands for the
\* element's identity (its timestamp).
Entry(seq, p, score) ==
    [seq |-> seq, rsrq |-> p.rsrq, sinr |-> p.sinr, cqi |-> p.cqi,
     latitude |-> p.latitude, longitude |-> p.longitude, qualityScore |-> score,
     downloadSpeed |-> OrZero(p.downloadSpeed), uploadSpeed |-> OrZero(p.uploadSpeed)]
NoEntry == Entry(0, NoPayload, 0)

\* A document handed to ConnectivityData (measurementHandler.js:290-303,
\* ConnecitivityController.js:47-59).  conn and seq say where it came from
\* ("http" for the record path).
Doc(conn, uid, e) ==
    [conn |-> conn, seq |-> e.seq, userId |-> uid,
     latitude |-> e.latitude, longitude |-> e.longitude,
     qualityScore |-> e.qualityScore, rsrq |-> e.rsrq, sinr |-> e.sinr,
     cqi |-> e.cqi, downloadSpeed |-> e.downloadSpeed, uploadSpeed |-> e.uploadSpeed]

\* measurements.map(...) of handleStop (measurementHandler.js:290-303).
BatchOf(c, uid, arr) == [i \in 1..Len(arr) |-> Doc(c, uid, arr[i])]

\* An insert request: insertMany of a `stop` (req: its message number) or
\* the save() of the record path.
\* The request (connection and message number) during which a call of the
\* record store failed.
Fault(conn, req) == [conn |-> conn, req |-> req]
NoFault == Fault("none", 0)

Call(conn, req, batch) == [conn |-> conn, req |-> req, batch |-> batch]
NoCall == Call("none", 0, <<>>)

\* A waiting continuation of the message listener.  kind says at which await
\* it waits; live says that its `measurements` parameter is still the array
\* the closure variable refers to, otherwise snap is that (detached) array.
\* fresh (history) is the number of elements pushed since the previous `stop`.
Handler(id, kind, token, uid, entry, batch, fresh) ==
    [id |-> id, kind |-> kind, token |-> token, uid |-> uid, entry |-> entry,
     batch |-> batch, fresh |-> fresh, live |-> TRUE, snap |-> <<>>]

\* The array a waiting handleStop holds.
ArrayOf(c, h) == IF h.live THEN measurements[c] ELSE h.snap

\* `measurements = []` (measurementHandler.js:122): the closure variable gets
\* a new array; the handlers of c that hold the old one keep it.
Detach(c, hs) ==
    {IF h.live /\ h.kind = "insert"
        THEN [h EXCEPT !.live = FALSE, !.snap = measurements[c]]
        ELSE h : h \in hs}

\* ------------------------------------------------------------- sendMessage
\* A variant that sends on every open connection of the user of c.
sendMessageToUser(c, o) ==
    [d \in Conns |->
        IF readyState[d] = "OPEN" /\ (d = c \/ (userId[c] # Null /\ userId[d] = userId[c]))
        THEN o ELSE sent[d]]

\* A variant that sends whatever the state of the socket.
sendMessageUnguarded(c, o) == [sent EXCEPT ![c] = o]

\* sendMessage (measurementHandler.js:397-401): sent only when OPEN.
sendMessage(c, o) ==
    IF readyState[c] = "OPEN" THEN [sent EXCEPT ![c] = o] ELSE sent

\* ------------------------------------------------------ authenticateClient
\* authenticateClient (measurementHandler.js:164-194).  "tokA"/"tokB" verify
\* and name an existing user; "tokGone" verifies but its user is not found;
\* "tokBad" makes jwt.verify throw.
TokenUser(token) ==
    CASE token = "tokA" -> "uA"
      [] token = "tokB" -> "uB"
      [] OTHER -> Null

authenticateClient(token) ==
    IF token = NoToken
    THEN [success |-> FALSE, userId |-> Null, error |-> "Token required"]
    ELSE IF token = "tokBad"
    THEN [success |-> FALSE, userId |-> Null, error |-> "jwt malformed"]
    ELSE IF TokenUser(token) = Null
    THEN [success |-> FALSE, userId |-> Null, error |-> "User not found"]
    ELSE [success |-> TRUE, userId |-> TokenUser(token), error |-> ""]

\* ------------------------------------------------------------ record store
\* Metres per coordinate unit (a hundredth of a degree) on a great circle of
\* radius EARTH_RADIUS_M.
MetersPerUnit == 1112

\* $near with $maxDistance r: the documents within r metres of (lat, lon).
\* Distances are compared in hundreds of metres.
WithinRadius(d, lat, lon, r) ==
    LET dy == (Abs(d.latitude - lat) * MetersPerUnit) \div 100
        dx == (Abs(d.longitude - lon) * MetersPerUnit) \div 100
    IN  dx * dx + dy * dy <= (r \div 100) * (r \div 100)

\* insertMany / save: the documents of a sequence added to the collection.
RECURSIVE InsertAll(_, _)
InsertAll(bag, docs) ==
    IF docs = <<>> THEN bag
    ELSE InsertAll(bag (+) SetToBag({Head(docs)}), Tail(docs))

\* ConnectivityData.findOne({userId, location: {$near ...}}).sort({qualityScore: -1})
\* (measurementHandler.js:355-366): a document of the user within the radius
\* with the highest qualityScore, or none (as a set: empty or one document).
\* A variant of the query without the userId condition.
NearbyBestAnyUser(bag, uid, lat, lon, r) ==
    LET cand == {d \in BagToSet(bag) : WithinRadius(d, lat, lon, r)}
    IN  IF cand = {} THEN {}
        ELSE {CHOOSE d \in cand : \A e \in cand : e.qualityScore <= d.qualityScore}

NearbyBest(bag, uid, lat, lon, r) ==
    LET cand == {d \in BagToSet(bag) : d.userId = uid /\ WithinRadius(d, lat, lon, r)}
    IN  IF cand = {} THEN {}
        ELSE {CHOOSE d \in cand : \A e \in cand : e.qualityScore <= d.qualityScore}
FindBestNearby(uid, lat, lon, r) == NearbyBest(store, uid, lat, lon, r)

\* findBestZoneHelper (ConnecitivityController.js:87-119) on the collection
\* bag: the radius is capped at MAX_RADIUS_M.
findBestZoneHelper(bag, uid, lat, lon, radiusMeters) ==
    LET found == NearbyBest(bag, uid, lat, lon, Min(radiusMeters, MAX_RADIUS_M))
    IN  IF found = {} THEN [hasData |-> FALSE, qualityScore |-> 0]
        ELSE [hasData |-> TRUE, qualityScore |-> (CHOOSE d \in found : TRUE).qualityScore]

\* findBestNearbyZone (measurementHandler.js:353-390): null when nothing is
\* found and when the query fails (the catch returns null).
findBestNearbyZone(uid, lat, lon, fails) ==
    LET found == IF fails THEN {} ELSE FindBestNearby(uid, lat, lon, DEFAULT_RADIUS_M)
    IN  IF found = {} THEN [hasData |-> FALSE, qualityScore |-> 0]
        ELSE [hasData |-> TRUE, qualityScore |-> (CHOOSE d \in found : TRUE).qualityScore]

\* ------------------------------------------------------------- environment
\* The kinds of run: what the clients may still do is kept in `left`.
\* rich: any token, any payload and any message type may be sent; otherwise
\* only `authenticate` with a valid token, valid measurements and `stop`.
\* pair: a second connection may be opened; its inserts succeed.  http:
\* the record route is called beside the messages of one connection.
\* zone: the record route and findBestZone are called, no connection is
\* opened.  stats: valid traffic of one connection whose measurements
\* differ.  The zone lookup of a session fails in the rich and http runs
\* only.
Run(m, b, kind) ==
    [msgs |-> m, beats |-> b, pair |-> kind = "pair", rich |-> kind = "rich",
     http |-> kind = "http", zone |-> kind = "zone", stats |-> kind = "stats"]
Runs == {Run(MaxMsgs, 0, "rich"), Run(MaxCoreMsgs, 0, "core"), Run(MaxPairMsgs, 0, "pair"),
         Run(MaxBeatMsgs, MaxBeats, "beat"), Run(MaxHttpMsgs, 0, "http"),
         Run(MaxZoneMsgs, 0, "zone"), Run(MaxStatsMsgs, 0, "stats")}

AllowedTokens(c) ==
    IF left.rich THEN Tokens ELSE IF c = "c1" THEN {"tokA"} ELSE {"tokA", "tokB"}
AllowedSamples ==
    IF left.rich THEN Samples
    ELSE IF left.http THEN ValidSamples \cup {WifiSample}
    ELSE IF left.stats THEN {GoodSample, PeakSample}
    ELSE {GoodSample}
\* The bodies posted to the record route in a run.
AllowedBodies ==
    IF left.zone THEN {GoodSample, FarSample, BadCoordSample}
    ELSE ValidSamples \cup {WifiSample}

\* A response of the record path (ConnecitivityController.js:66-78).
Response(status, score, hasData, bestScore) ==
    [status |-> status, qualityScore |-> score, hasData |-> hasData, bestScore |-> bestScore]
NoResponse == Response(0, 0, FALSE, 0)

\* ---------------------------------------------------------------- helpers
NextId(c) == nRecv[c] + 1

\* A 'message' event can be emitted while the socket is OPEN and, after
\* ws.close() was called, until the closing handshake ends.
CanReceive(c) ==
    /\ readyState[c] \in {"OPEN", "CLOSING"}
    /\ left.msgs > 0

Deliver(c, msg) ==
    /\ nRecv' = [nRecv EXCEPT ![c] = @ + 1]
    /\ lastMsg' = [lastMsg EXCEPT ![c] = msg]
    /\ left' = [left EXCEPT !.msgs = @ - 1]

\* A variant in which the socket is left open.
wsCloseIgnored(c, code) == UNCHANGED <<readyState, closeCode>>

\* ws.close(code): starts the closing handshake of an OPEN socket.
wsClose(c, code) ==
    /\ readyState' = [readyState EXCEPT ![c] = IF @ = "OPEN" THEN "CLOSING" ELSE @]
    /\ closeCode' = [closeCode EXCEPT ![c] = IF readyState[c] = "OPEN" THEN code ELSE @]

\* -------------------------------------------------------------------- Init
InitSession ==
    /\ readyState = [c \in Conns |-> "NONE"]
    /\ closeCode = [c \in Conns |-> 0]
    /\ userId = [c \in Conns |-> Null]
    /\ measurements = [c \in Conns |-> <<>>]
    /\ heartbeatTimer = [c \in Conns |-> FALSE]
    /\ pending = [c \in Conns |-> {}]
    /\ activeConnections = [u \in Users |-> Null]
    /\ store = EmptyBag
    /\ sent = [c \in Conns |-> NoOut]
    /\ beats = [c \in Conns |-> 0]
    /\ nRecv = [c \in Conns \cup {"http"} |-> 0]
    /\ lastMsg = [c \in Conns \cup {"http"} |-> NoMsg]
    /\ sinceStop = [c \in Conns |-> <<>>]
    /\ lastCall = NoCall
    /\ httpRes = NoResponse
    /\ flushed = [c \in Conns |-> 0]
    /\ fault = NoFault

Init ==
    /\ InitSession
    /\ left \in Runs
    /\ calc = NoCalc

\* -------------------------------------------------------- handleConnection
\* handleConnection (measurementHandler.js:50-76): a new connection; the
\* acknowledgement is sent and the heartbeat timer armed.  c2 connects after c1.
Connect(c) ==
    /\ readyState[c] = "NONE"
    /\ ~left.zone
    /\ \A d \in Earlier(c) : left.pair /\ readyState[d] # "NONE"
    /\ readyState' = [readyState EXCEPT ![c] = "OPEN"]
    /\ sent' = [sent EXCEPT ![c] = Out("connection", 0, "", 0, 0, 0, FALSE)]
    /\ heartbeatTimer' = [heartbeatTimer EXCEPT ![c] = TRUE]
    /\ UNCHANGED <<calc, closeCode, userId, measurements, pending, activeConnections,
                   store, beats, nRecv, lastMsg, sinceStop, lastCall, httpRes, flushed, fault, left>>

\* A variant of the callback that beats only once an owner is bound.
HeartbeatWhenAuthenticated(c) ==
    /\ heartbeatTimer[c]
    /\ left.beats > 0
    /\ left' = [left EXCEPT !.beats = @ - 1]
    /\ beats' = [beats EXCEPT ![c] =
                    IF readyState[c] = "OPEN" /\ userId[c] # Null THEN @ + 1 ELSE @]
    /\ UNCHANGED <<calc, readyState, closeCode, userId, measurements, heartbeatTimer,
                   pending, activeConnections, store, sent, nRecv, lastMsg, sinceStop,
                   lastCall, httpRes, flushed, fault>>

\* The setInterval callback (measurementHandler.js:69-76).
Heartbeat(c) ==
    /\ heartbeatTimer[c]
    /\ left.beats > 0
    /\ left' = [left EXCEPT !.beats = @ - 1]
    /\ beats' = [beats EXCEPT ![c] = IF readyState[c] = "OPEN" THEN @ + 1 ELSE @]
    /\ UNCHANGED <<calc, readyState, closeCode, userId, measurements, heartbeatTimer,
                   pending, activeConnections, store, sent, nRecv, lastMsg, sinceStop,
                   lastCall, httpRes, flushed, fault>>

\* A variant of the catch of line 135 that also closes the socket.
RecvMalformedCloses(c) ==
    /\ CanReceive(c)
    /\ left.rich
    /\ Deliver(c, Msg("malformed", NoToken, NoPayload))
    /\ sent' = sendMessage(c, ErrorOut(NextId(c), "Failed to process message"))
    /\ wsClose(c, 1003)
    /\ UNCHANGED <<calc, userId, measurements, heartbeatTimer, pending, activeConnections,
                   store, beats, sinceStop, lastCall, httpRes, flushed, fault>>

\* JSON.parse throws (line 81); the catch of line 135 answers.
RecvMalformed(c) ==
    /\ CanReceive(c)
    /\ left.rich
    /\ Deliver(c, Msg("malformed", NoToken, NoPayload))
    /\ sent' = sendMessage(c, ErrorOut(NextId(c), "Failed to process message"))
    /\ UNCHANGED <<calc, readyState, closeCode, userId, measurements, heartbeatTimer,
                   pending, activeConnections, store, beats, sinceStop, lastCall, httpRes, flushed, fault>>

\* Lines 84-86: `authenticate` while userId is null; the listener waits for
\* authenticateClient.
RecvAuthenticate(c, token) ==
    /\ CanReceive(c)
    /\ userId[c] = Null
    /\ token \in AllowedTokens(c)
    /\ Deliver(c, Msg("authenticate", token, NoPayload))
    /\ pending' = [pending EXCEPT ![c] =
                      @ \cup {Handler(NextId(c), "auth", token, Null, NoEntry, <<>>, 0)}]
    /\ UNCHANGED <<calc, readyState, closeCode, userId, measurements, heartbeatTimer,
                   activeConnections, store, sent, beats, sinceStop, lastCall, httpRes, flushed, fault>>

\* Lines 87-103: authenticateClient has settled.
AuthResolved(c, h) ==
    /\ h \in pending[c]
    /\ h.kind = "auth"
    /\ pending' = [pending EXCEPT ![c] = @ \ {h}]
    /\ LET result == authenticateClient(h.token)
       IN  IF result.success
           THEN /\ userId' = [userId EXCEPT ![c] = result.userId]
                /\ activeConnections' = [activeConnections EXCEPT ![result.userId] = c]
                /\ sent' = sendMessage(c, Out("authenticated", h.id, result.userId, 0, 0, 0, FALSE))
                /\ UNCHANGED <<readyState, closeCode>>
           ELSE /\ sent' = sendMessage(c, ErrorOut(h.id, result.error))
                /\ wsClose(c, AuthFailedCode)
                /\ UNCHANGED <<userId, activeConnections>>
    /\ UNCHANGED <<calc, measurements, heartbeatTimer, store, beats, nRecv, lastMsg, sinceStop,
                   lastCall, httpRes, flushed, fault, left>>

\* A variant of lines 104-110 that treats the message as a failed
\* authentication and closes the socket.
RecvUnauthenticatedCloses(c, type) ==
    /\ CanReceive(c)
    /\ userId[c] = Null
    /\ type # "authenticate"
    /\ left.rich
    /\ Deliver(c, Msg(type, NoToken, NoPayload))
    /\ sent' = sendMessage(c, ErrorOut(NextId(c), "Please authenticate first"))
    /\ wsClose(c, AuthFailedCode)
    /\ UNCHANGED <<calc, userId, measurements, heartbeatTimer,
                   pending, activeConnections, store, beats, sinceStop, lastCall, httpRes, flushed, fault>>

\* Lines 104-110: any other message while userId is null.
RecvUnauthenticated(c, type) ==
    /\ CanReceive(c)
    /\ userId[c] = Null
    /\ type # "authenticate"
    /\ left.rich
    /\ Deliver(c, Msg(type, NoToken, NoPayload))
    /\ sent' = sendMessage(c, ErrorOut(NextId(c), "Please authenticate first"))
    /\ UNCHANGED <<calc, readyState, closeCode, userId, measurements, heartbeatTimer,
                   pending, activeConnections, store, beats, sinceStop, lastCall, httpRes, flushed, fault>>

\* Lines 115-116 and handleMeasurement up to its await (lines 204-247).
RecvMeasurement(c, p) ==
    /\ CanReceive(c)
    /\ userId[c] # Null
    /\ p \in AllowedSamples
    /\ Deliver(c, Msg("measurement", NoToken, p))
    /\ IF ~isValidCoordinate(p.latitude, p.longitude)
       THEN /\ sent' = sendMessage(c, ErrorOut(NextId(c), "Invalid coordinates"))
            /\ UNCHANGED <<measurements, pending, sinceStop>>
       ELSE IF \/ Lt(p.rsrq, -20) \/ Gt(p.rsrq, -3)
               \/ Lt(p.sinr, -10) \/ Gt(p.sinr, 30)
               \/ Lt(p.cqi, 0) \/ Gt(p.cqi, 15)
       THEN /\ sent' = sendMessage(c, ErrorOut(NextId(c), "Invalid radio metrics"))
            /\ UNCHANGED <<measurements, pending, sinceStop>>
       ELSE IF QualityScoreThrows(p.rsrq, p.sinr, p.cqi)
       THEN \* handleMeasurement rejects; the listener's catch runs after the await
            /\ pending' = [pending EXCEPT ![c] =
                              @ \cup {Handler(NextId(c), "threw", NoToken, userId[c], NoEntry, <<>>, 0)}]
            /\ UNCHANGED <<measurements, sent, sinceStop>>
       ELSE LET e == Entry(NextId(c), p, calculateQualityScore(p.rsrq, p.sinr, p.cqi))
            IN  /\ measurements' = [measurements EXCEPT ![c] = Append(@, e)]
                /\ sinceStop' = [sinceStop EXCEPT ![c] = Append(@, e)]
                /\ pending' = [pending EXCEPT ![c] =
                                  @ \cup {Handler(NextId(c), "zone", NoToken, userId[c], e, <<>>, 0)}]
                /\ UNCHANGED sent
    /\ UNCHANGED <<calc, readyState, closeCode, userId, heartbeatTimer, activeConnections,
                   store, beats, lastCall, httpRes, flushed, fault>>

\* Lines 135-141 after handleMeasurement rejected.
MeasurementThrew(c, h) ==
    /\ h \in pending[c]
    /\ h.kind = "threw"
    /\ pending' = [pending EXCEPT ![c] = @ \ {h}]
    /\ sent' = sendMessage(c, ErrorOut(h.id, "Failed to process message"))
    /\ UNCHANGED <<calc, readyState, closeCode, userId, measurements, heartbeatTimer,
                   activeConnections, store, beats, nRecv, lastMsg, sinceStop, lastCall,
                   httpRes, flushed, fault, left>>

\* handleMeasurement lines 247-265: findBestNearbyZone has settled (fails:
\* the query threw and the catch of line 386 returned null).
ZoneResolved(c, h, fails) ==
    /\ h \in pending[c]
    /\ h.kind = "zone"
    /\ fails => left.rich \/ left.http
    /\ pending' = [pending EXCEPT ![c] = @ \ {h}]
    /\ LET bestZone == findBestNearbyZone(h.uid, h.entry.latitude, h.entry.longitude, fails)
       IN  sent' = sendMessage(c, ZoneOut(h.id, h.entry.qualityScore, bestZone))
    /\ fault' = IF fails THEN Fault(c, h.id) ELSE NoFault
    /\ UNCHANGED <<calc, readyState, closeCode, userId, measurements, heartbeatTimer,
                   activeConnections, store, beats, nRecv, lastMsg, sinceStop, lastCall,
                   httpRes, flushed, left>>

\* Lines 120-121 and handleStop up to its await (lines 278-304).
RecvStop(c) ==
    /\ CanReceive(c)
    /\ userId[c] # Null
    /\ Deliver(c, Msg("stop", NoToken, NoPayload))
    /\ sinceStop' = [sinceStop EXCEPT ![c] = <<>>]
    /\ IF Len(measurements[c]) = 0
       THEN /\ sent' = sendMessage(c, ErrorOut(NextId(c), "No measurements recorded"))
            /\ pending' = [pending EXCEPT ![c] =
                              @ \cup {Handler(NextId(c), "stopped", NoToken, userId[c],
                                              NoEntry, <<>>, Len(sinceStop[c]))}]
            /\ UNCHANGED lastCall
       ELSE LET batch == BatchOf(c, userId[c], measurements[c])
            IN  /\ lastCall' = Call(c, NextId(c), batch)
                /\ pending' = [pending EXCEPT ![c] =
                                  @ \cup {Handler(NextId(c), "insert", NoToken, userId[c],
                                                  NoEntry, batch, Len(sinceStop[c]))}]
                /\ UNCHANGED sent
    /\ UNCHANGED <<calc, readyState, closeCode, userId, measurements, heartbeatTimer,
                   activeConnections, store, beats, httpRes, flushed, fault>>

\* Line 122 after handleStop returned at line 285: `measurements = []`.
StopReturned(c, h) ==
    /\ h \in pending[c]
    /\ h.kind = "stopped"
    /\ pending' = [pending EXCEPT ![c] = Detach(c, @ \ {h})]
    /\ measurements' = [measurements EXCEPT ![c] = <<>>]
    /\ UNCHANGED <<calc, readyState, closeCode, userId, heartbeatTimer, activeConnections,
                   store, sent, beats, nRecv, lastMsg, sinceStop, lastCall, httpRes, flushed, fault, left>>

\* handleStop lines 304-343 and line 122: insertMany has settled (ok: it
\* resolved; otherwise it rejected and nothing was inserted).
InsertResolved(c, h, ok) ==
    /\ h \in pending[c]
    /\ h.kind = "insert"
    /\ ~ok => ~left.pair
    /\ pending' = [pending EXCEPT ![c] = Detach(c, @ \ {h})]
    /\ IF ok
       THEN /\ store' = InsertAll(store, h.batch)
            /\ sent' = sendMessage(c, SummaryOut(h.id, ArrayOf(c, h), Len(h.batch)))
       ELSE /\ sent' = sendMessage(c, ErrorOut(h.id, "Failed to save measurements"))
            /\ UNCHANGED store
    /\ measurements' = [measurements EXCEPT ![c] = <<>>]
    /\ flushed' = IF ok THEN [flushed EXCEPT ![c] = nRecv[c]] ELSE flushed
    /\ fault' = IF ok THEN NoFault ELSE Fault(c, h.id)
    /\ UNCHANGED <<calc, readyState, closeCode, userId, heartbeatTimer, activeConnections,
                   beats, nRecv, lastMsg, sinceStop, lastCall, httpRes, left>>

\* Lines 125-127.
RecvPing(c) ==
    /\ CanReceive(c)
    /\ left.rich
    /\ userId[c] # Null
    /\ Deliver(c, Msg("ping", NoToken, NoPayload))
    /\ sent' = sendMessage(c, Out("pong", NextId(c), "", 0, 0, 0, FALSE))
    /\ UNCHANGED <<calc, readyState, closeCode, userId, measurements, heartbeatTimer,
                   pending, activeConnections, store, beats, sinceStop, lastCall, httpRes, flushed, fault>>

\* Lines 129-133: the default case; an `authenticate` sent after the owner
\* is bound ends here too.
RecvUnknown(c, type) ==
    /\ CanReceive(c)
    /\ userId[c] # Null
    /\ type \notin {"measurement", "stop", "ping"}
    /\ left.rich
    /\ Deliver(c, Msg(type, NoToken, NoPayload))
    /\ sent' = sendMessage(c, ErrorOut(NextId(c), "Unknown message type"))
    /\ UNCHANGED <<calc, readyState, closeCode, userId, measurements, heartbeatTimer,
                   pending, activeConnections, store, beats, sinceStop, lastCall, httpRes, flushed, fault>>

\* A variant of the 'close' listener that flushes the accumulator to the
\* record store.
CloseEventFlushes(c) ==
    /\ readyState[c] \in {"OPEN", "CLOSING"}
    /\ readyState' = [readyState EXCEPT ![c] = "CLOSED"]
    /\ activeConnections' =
          IF userId[c] # Null THEN [activeConnections EXCEPT ![userId[c]] = Null]
          ELSE activeConnections
    /\ heartbeatTimer' = [heartbeatTimer EXCEPT ![c] = FALSE]
    /\ store' = InsertAll(store, BatchOf(c, userId[c], measurements[c]))
    /\ UNCHANGED <<calc, closeCode, userId, measurements, pending, sent, beats,
                   nRecv, lastMsg, sinceStop, lastCall, httpRes, flushed, fault, left>>

\* The 'close' listener (lines 145-151): the socket has closed, after the
\* closing handshake or because the client went away.
CloseEvent(c) ==
    /\ readyState[c] \in {"OPEN", "CLOSING"}
    /\ readyState' = [readyState EXCEPT ![c] = "CLOSED"]
    /\ activeConnections' =
          IF userId[c] # Null THEN [activeConnections EXCEPT ![userId[c]] = Null]
          ELSE activeConnections
    /\ heartbeatTimer' = [heartbeatTimer EXCEPT ![c] = FALSE]
    /\ UNCHANGED <<calc, closeCode, userId, measurements, pending, store, sent, beats,
                   nRecv, lastMsg, sinceStop, lastCall, httpRes, flushed, fault, left>>

\* recordMeasurement (ConnecitivityController.js:20-82) for the body p of
\* user uid; saveOnStop is the save flag, dbOk says whether the database
\* answers (otherwise save or findOne rejects: next(error)).
recordMeasurement(uid, p, saveOnStop, dbOk) ==
    /\ left.http \/ left.zone
    /\ left.msgs > 0
    /\ left' = [left EXCEPT !.msgs = @ - 1]
    /\ nRecv' = [nRecv EXCEPT !["http"] = @ + 1]
    /\ lastMsg' = [lastMsg EXCEPT !["http"] = Request("record", NoToken, p, uid, saveOnStop)]
    /\ IF ~isValidCoordinate(p.latitude, p.longitude)
       THEN /\ httpRes' = Response(400, 0, FALSE, 0)
            /\ UNCHANGED <<store, lastCall, fault>>
       ELSE IF p.networkType # "wifi" /\ QualityScoreThrows(p.rsrq, p.sinr, p.cqi)
       THEN /\ httpRes' = Response(500, 0, FALSE, 0)
            /\ UNCHANGED <<store, lastCall, fault>>
       ELSE LET qualityScore ==
                    IF p.networkType = "wifi"
                    THEN calculateWiFiQualityScore(p.downloadSpeed, p.uploadSpeed,
                                                   p.latency)
                    ELSE IF Gt(p.downloadSpeed, 0) \/ Gt(p.uploadSpeed, 0)
                    THEN calculateEnhancedQualityScore(p.rsrq, p.sinr, p.cqi,
                             OrZero(p.downloadSpeed), OrZero(p.uploadSpeed))
                    ELSE calculateQualityScore(p.rsrq, p.sinr, p.cqi)
                doc == Doc("http", uid, Entry(NextId("http"), p, qualityScore))
            IN  /\ lastCall' = IF saveOnStop THEN Call("http", NextId("http"), <<doc>>)
                               ELSE lastCall
                /\ store' = IF saveOnStop /\ dbOk THEN InsertAll(store, <<doc>>) ELSE store
                /\ fault' = IF dbOk THEN NoFault ELSE Fault("http", NextId("http"))
                /\ httpRes' =
                      IF ~dbOk THEN Response(500, 0, FALSE, 0)
                      ELSE LET bestZone == findBestZoneHelper(store', uid, p.latitude,
                                               p.longitude, DEFAULT_RADIUS_M)
                           IN  Response(200, qualityScore, bestZone.hasData,
                                        bestZone.qualityScore)
    /\ UNCHANGED <<calc, readyState, closeCode, userId, measurements, heartbeatTimer,
                   pending, activeConnections, sent, beats, sinceStop, flushed>>

\* POST /measure (routes/auth.js:73-79) after authentication: validate
\* ('measurement') answers 400 "Validation failed" to a body the schema
\* refuses (validation.js:68-75), otherwise hands the stripped body to
\* recordMeasurement.
measure(uid, body, saveOnStop, dbOk) ==
    /\ body \in AllowedBodies
    /\ IF SchemaAccepts(body)
       THEN recordMeasurement(uid, StripUnknown(body), saveOnStop, dbOk)
       ELSE /\ left.http \/ left.zone
            /\ left.msgs > 0
            /\ left' = [left EXCEPT !.msgs = @ - 1]
            /\ nRecv' = [nRecv EXCEPT !["http"] = @ + 1]
            /\ lastMsg' = [lastMsg EXCEPT !["http"] =
                              Request("record", NoToken, body, uid, saveOnStop)]
            /\ httpRes' = Response(400, 0, FALSE, 0)
            /\ UNCHANGED <<calc, readyState, closeCode, userId, measurements,
                           heartbeatTimer, pending, activeConnections, store, sent, beats,
                           sinceStop, lastCall, flushed, fault>>

\* findBestZone (ConnecitivityController.js:125-144) for user uid at the
\* coordinates of p: `radius || DEFAULT_RADIUS_M` goes to findBestZoneHelper.
\* (The schema of the route, validation.js:32-36, admits a radius up to
\* 10000; the controller itself takes any.)
findBestZone(uid, p, radius, dbOk) ==
    /\ left.zone
    /\ left.msgs > 0
    /\ left' = [left EXCEPT !.msgs = @ - 1]
    /\ nRecv' = [nRecv EXCEPT !["http"] = @ + 1]
    /\ lastMsg' = [lastMsg EXCEPT !["http"] = ZoneRequest(uid, p, radius)]
    /\ IF ~isValidCoordinate(p.latitude, p.longitude)
       THEN /\ httpRes' = Response(400, 0, FALSE, 0)
            /\ UNCHANGED fault
       ELSE IF ~dbOk
       THEN /\ httpRes' = Response(500, 0, FALSE, 0)
            /\ fault' = Fault("http", NextId("http"))
       ELSE LET result == findBestZoneHelper(store, uid, p.latitude, p.longitude,
                              IF IsNumber(radius) /\ radius # 0 THEN radius
                              ELSE DEFAULT_RADIUS_M)
            IN  /\ httpRes' = Response(200, 0, result.hasData, result.qualityScore)
                /\ fault' = NoFault
    /\ UNCHANGED <<calc, readyState, closeCode, userId, measurements, heartbeatTimer,
                   pending, activeConnections, store, sent, beats, sinceStop, lastCall,
                   flushed>>

Next ==
    \/ \E c \in Conns : Connect(c)
    \/ \E c \in Conns : Heartbeat(c)
    \/ \E c \in Conns : RecvMalformed(c)
    \/ \E c \in Conns, t \in Tokens : RecvAuthenticate(c, t)
    \/ \E c \in Conns : \E h \in pending[c] : AuthResolved(c, h)
    \/ \E c \in Conns, t \in {"measurement", "stop", "ping"} : RecvUnauthenticated(c, t)
    \/ \E c \in Conns, p \in SessionSamples : RecvMeasurement(c, p)
    \/ \E c \in Conns : \E h \in pending[c] : MeasurementThrew(c, h)
    \/ \E c \in Conns : \E h \in pending[c] : \E fails \in BOOLEAN : ZoneResolved(c, h, fails)
    \/ \E c \in Conns : RecvStop(c)
    \/ \E c \in Conns : \E h \in pending[c] : StopReturned(c, h)
    \/ \E c \in Conns : \E h \in pending[c] : \E ok \in BOOLEAN : InsertResolved(c, h, ok)
    \/ \E c \in Conns : RecvPing(c)
    \/ \E c \in Conns, t \in {"bogus", "authenticate"} : RecvUnknown(c, t)
    \/ \E c \in Conns : CloseEvent(c)
    \/ \E uid \in Users, p \in HttpSamples, saveOnStop \in BOOLEAN, dbOk \in BOOLEAN :
          measure(uid, p, saveOnStop, dbOk)
    \/ \E uid \in Users, p \in {GoodSample, BadCoordSample}, radius \in Radii,
             dbOk \in BOOLEAN :
          findBestZone(uid, p, radius, dbOk)

Spec == Init /\ [][Next]_vars

\* ------------------------------------------ the scoring functions by themselves
\* No connection and no call of the HTTP endpoints.
Idle == Run(0, 0, "none")
sessionVars == <<readyState, closeCode, userId, measurements, heartbeatTimer, pending,
                 activeConnections, store, sent, beats, nRecv, lastMsg, sinceStop,
                 lastCall, httpRes, flushed, fault, left>>

\* calculateQualityScore(rsrq, sinr, cqi) is called (qualityScore.js:16-53).
ApplyCalculateQualityScore ==
    /\ calc.fn = "calculateQualityScore" /\ ~calc.done
    /\ calc' = IF QualityScoreThrows(calc.rsrq, calc.sinr, calc.cqi)
               THEN Threw(calc)
               ELSE Returned(calc, calculateQualityScore(calc.rsrq, calc.sinr, calc.cqi))
    /\ UNCHANGED sessionVars

\* calculateEnhancedQualityScore(rsrq, sinr, cqi, downloadSpeed, uploadSpeed)
\* is called (qualityScore.js:168-182); a throw of calculateQualityScore
\* passes through.
ApplyCalculateEnhancedQualityScore ==
    /\ calc.fn = "calculateEnhancedQualityScore" /\ ~calc.done
    /\ calc' = IF QualityScoreThrows(calc.rsrq, calc.sinr, calc.cqi)
               THEN Threw(calc)
               ELSE Returned(calc, calculateEnhancedQualityScore(calc.rsrq, calc.sinr,
                                       calc.cqi, calc.downloadSpeed, calc.uploadSpeed))
    /\ UNCHANGED sessionVars

\* getSignalQuality(score) is called.
ApplyGetSignalQuality ==
    /\ calc.fn = "getSignalQuality" /\ ~calc.done
    /\ calc' = ReturnedText(calc, getSignalQuality(calc.score))
    /\ UNCHANGED sessionVars

\* generateHumanMessage(qualityScore, rsrq, sinr, cqi) is called; the text
\* kept is the word of its quality assessment.
ApplyGenerateHumanMessage ==
    /\ calc.fn = "generateHumanMessage" /\ ~calc.done
    /\ calc' = ReturnedText(calc, HumanQualityWord(calc.score))
    /\ UNCHANGED sessionVars

\* generateWiFiMessage(qualityScore, ...) is called; the text kept is the
\* word of its quality clause.
ApplyGenerateWiFiMessage ==
    /\ calc.fn = "generateWiFiMessage" /\ ~calc.done
    /\ calc' = ReturnedText(calc, WiFiQualityWord(calc.score))
    /\ UNCHANGED sessionVars

ScoreInit ==
    /\ InitSession
    /\ left = Idle
    /\ calc \in ScoreCalls

ScoreNext ==
    \/ ApplyCalculateQualityScore
    \/ ApplyCalculateEnhancedQualityScore
    \/ ApplyGetSignalQuality
    \/ ApplyGenerateHumanMessage
    \/ ApplyGenerateWiFiMessage

ScoreSpec == ScoreInit /\ [][ScoreNext]_vars

\* The scheduling the code can count on: a continuation that waits for no
\* collaborator (the listener after handleMeasurement rejected, after
\* handleStop returned) runs, and the interval timer ticks while it is armed.
\* Nothing makes jwt/User.findById, insertMany or findOne reply, and the
\* code arms no timer beside the heartbeat.
LiveSpec ==
    /\ Spec
    /\ \A c \in Conns :
          /\ WF_vars(\E h \in pending[c] : MeasurementThrew(c, h))
          /\ WF_vars(\E h \in pending[c] : StopReturned(c, h))
          /\ WF_vars(Heartbeat(c))


\* ================================================================== claims
\* A 'message' event of connection c is handled in this step.
Handles(c) == nRecv'[c] = nRecv[c] + 1

\* The continuation h of connection c runs in this step.
Resumes(c, h) == h \in pending[c] /\ \A g \in pending'[c] : g.id # h.id

\* The session states of the specification.
AwaitingAuth(c) == readyState[c] = "OPEN" /\ userId[c] = Null
Authenticated(c) == readyState[c] = "OPEN" /\ userId[c] # Null

\* C1: while the session awaits authentication (also while a verification
\* is pending), a message whose type is not `authenticate` is answered with
\* the authenticate-first error and nothing else happens: nothing is pushed,
\* the record store is not called, the connection stays open, no owner is
\* bound and no continuation is left waiting.
C1_NonAuthMessageOnlyError ==
    [][\A c \in Conns :
        (Handles(c) /\ AwaitingAuth(c)
            /\ lastMsg'[c].type \notin {"authenticate", "malformed"})
        => /\ sent'[c] = ErrorOut(nRecv'[c], "Please authenticate first")
           /\ measurements' = measurements
           /\ lastCall' = lastCall /\ store' = store
           /\ readyState'[c] = "OPEN" /\ closeCode'[c] = closeCode[c]
           /\ userId'[c] = Null
           /\ pending'[c] = pending[c]
           /\ activeConnections' = activeConnections]_vars

\* C1 witness: a measurement was refused while a verification is pending.
C1_Witness ==
    \E c \in Conns :
        /\ AwaitingAuth(c)
        /\ lastMsg[c].type = "measurement"
        /\ sent[c] = ErrorOut(nRecv[c], "Please authenticate first")
        /\ \E h \in pending[c] : h.kind = "auth" /\ h.id < nRecv[c]

\* C2: a session_summary counts exactly the records of its batch:
\* measurementCount equals the number of records handed to the record store
\* by that stop, so no measurement that arrived while the insert was pending
\* is counted.
C2_SummaryCountsItsBatch ==
    \A c \in Conns :
        sent[c].type = "session_summary" => sent[c].count = sent[c].saved

\* C3: the measurements accepted since the previous stop, followed by one
\* stop, give one batch insert of exactly those records, in order, tagged
\* with the owner, and the summary of that stop counts exactly them.
C3_OneBatchOfTheSessionsRecords ==
    [][\A c \in Conns :
        /\ (Handles(c) /\ lastMsg'[c].type = "stop" /\ userId[c] # Null
                /\ Len(sinceStop[c]) >= 1)
           => lastCall' = Call(c, nRecv'[c], BatchOf(c, userId[c], sinceStop[c]))
        /\ \A h \in pending[c] :
              (h.kind = "insert" /\ Resumes(c, h)
                  /\ sent'[c].type = "session_summary" /\ sent'[c].req = h.id)
              => sent'[c].count = h.fresh]_vars

\* C4: the record store is called only by a `stop` that is being processed
\* on a connection that is not closed, or by a call of the record path whose
\* save flag is set; records enter the store only from such a call; the
\* closing of a connection calls nothing and writes nothing, whatever its
\* accumulator holds.
C4_StoreWrittenOnlyByStopOrSave ==
    [][/\ lastCall' # lastCall
          => \/ \E c \in Conns :
                   /\ Handles(c) /\ lastMsg'[c].type = "stop"
                   /\ userId[c] # Null /\ readyState[c] # "CLOSED"
                   /\ lastCall'.conn = c
             \/ /\ nRecv'["http"] # nRecv["http"] /\ lastMsg'["http"].save
                /\ lastCall'.conn = "http"
       /\ store' # store
          => \/ \E c \in Conns : \E h \in pending[c] :
                   /\ h.kind = "insert" /\ Resumes(c, h)
                   /\ store' = InsertAll(store, h.batch)
             \/ /\ nRecv'["http"] # nRecv["http"] /\ lastMsg'["http"].save
                /\ store' = InsertAll(store, lastCall'.batch)
       /\ \A c \in Conns :
             (readyState[c] # "CLOSED" /\ readyState'[c] = "CLOSED")
             => (lastCall' = lastCall /\ store' = store)]_vars

\* C4 witness: a connection closed with a measurement in its accumulator
\* and nothing was handed to the record store.
C4_Witness ==
    \E c \in Conns :
        /\ readyState[c] = "CLOSED"
        /\ Len(measurements[c]) > 0
        /\ lastCall = NoCall
        /\ store = EmptyBag

\* C5: when the verification of an `authenticate` rejects the token
\* (missing, not verifiable, user unknown), an error answers the message and
\* the socket is closed with code 4001; the step binds no owner and leaves
\* the registry as it was.
C5_RejectedTokenCloses ==
    [][\A c \in Conns : \A h \in pending[c] :
        (h.kind = "auth" /\ h.token \in {NoToken, "tokBad", "tokGone"} /\ Resumes(c, h))
        => /\ userId' = userId
           /\ activeConnections' = activeConnections
           /\ readyState[c] = "OPEN"
              => /\ sent'[c].type = "error" /\ sent'[c].req = h.id
                 /\ readyState'[c] = "CLOSING"
                 /\ closeCode'[c] = 4001]_vars

\* C5 witness: a token was rejected: the error is out, the socket closes
\* with 4001, no owner, no registry entry.
C5_Witness ==
    \E c \in Conns :
        /\ readyState[c] = "CLOSING" /\ closeCode[c] = 4001
        /\ lastMsg[c].type = "authenticate" /\ lastMsg[c].token = "tokGone"
        /\ sent[c] = ErrorOut(nRecv[c], "User not found")
        /\ userId[c] = Null
        /\ \A u \in Users : activeConnections[u] # c

\* C6: once an owner is bound to a connection it never changes.
C6_OwnerNeverChanges ==
    [][\A c \in Conns : userId[c] # Null => userId'[c] = userId[c]]_vars

\* C7: the messages of a connection are handled one at a time, in arrival
\* order: no message is handled while the handling of an earlier one is
\* waiting, and the responses follow the order of the requests.
C7_HandledOneAtATime ==
    [][\A c \in Conns :
        /\ Handles(c) => pending[c] = {}
        /\ sent'[c] # sent[c] => sent'[c].req >= sent[c].req]_vars

\* C8: when the insert of a stop fails, an error is sent, the connection
\* stays open with its owner, and the accumulator keeps its measurements.
C8_FailedStopKeepsAccumulator ==
    [][\A c \in Conns : \A h \in pending[c] :
        (h.kind = "insert" /\ Resumes(c, h) /\ store' = store)
        => /\ readyState[c] = "OPEN" => sent'[c] = ErrorOut(h.id, "Failed to save measurements")
           /\ readyState'[c] = readyState[c]
           /\ userId'[c] = userId[c]
           /\ measurements'[c] = measurements[c]]_vars

\* C9: an authenticated session answers a measurement with an invalid
\* coordinate or a radio metric that is missing, not a number or out of
\* range with an error and nothing else: when the message is handled
\* nothing is pushed, no best-zone query starts and the store is not
\* called; the error is sent at once or by the listener's catch, which
\* changes nothing else either.
C9_InvalidMeasurementOnlyError ==
    [][\A c \in Conns :
        /\ (Handles(c) /\ Authenticated(c) /\ lastMsg'[c].type = "measurement"
                /\ lastMsg'[c].payload \in InvalidSamples)
           => /\ measurements' = measurements
              /\ lastCall' = lastCall /\ store' = store
              /\ userId' = userId /\ readyState' = readyState
              /\ \/ /\ sent'[c].type = "error" /\ sent'[c].req = nRecv'[c]
                    /\ pending'[c] = pending[c]
                 \/ /\ sent'[c] = sent[c]
                    /\ \E h \in pending'[c] \ pending[c] :
                          /\ h.kind = "threw" /\ h.id = nRecv'[c]
                          /\ pending'[c] = pending[c] \cup {h}
        /\ \A h \in pending[c] :
              (h.kind = "threw" /\ Resumes(c, h))
              => /\ measurements' = measurements
                 /\ lastCall' = lastCall /\ store' = store
                 /\ userId' = userId /\ readyState' = readyState
                 /\ pending'[c] = pending[c] \ {h}
                 /\ readyState[c] = "OPEN"
                    => sent'[c] = ErrorOut(h.id, "Failed to process message")]_vars

\* C9 witness: a measurement without its cqi was answered by the error of
\* the listener's catch and the accumulator is empty.
C9_Witness ==
    \E c \in Conns :
        /\ Authenticated(c)
        /\ lastMsg[c].type = "measurement" /\ lastMsg[c].payload = MissingRadioSample
        /\ sent[c] = ErrorOut(nRecv[c], "Failed to process message")
        /\ measurements[c] = <<>>
        /\ pending[c] = {}
        /\ lastCall = NoCall

\* C10: a `stop` on an empty accumulator is answered with the error
\* 'No measurements recorded', calls no store, sends no summary, and its
\* handling, to its end, leaves the accumulator as it is.
C10_EmptyStopChangesNothing ==
    [][\A c \in Conns :
        /\ (Handles(c) /\ Authenticated(c) /\ lastMsg'[c].type = "stop"
                /\ measurements[c] = <<>>)
           => /\ sent'[c] = ErrorOut(nRecv'[c], "No measurements recorded")
              /\ lastCall' = lastCall /\ store' = store
              /\ measurements'[c] = measurements[c]
        /\ \A h \in pending[c] :
              (h.kind = "stopped" /\ Resumes(c, h))
              => /\ sent'[c] = sent[c]
                 /\ lastCall' = lastCall /\ store' = store
                 /\ measurements'[c] = measurements[c]]_vars

\* C11: a stop flushes and does not terminate: when the insert of a stop
\* succeeds the accumulator is empty and the connection and its owner are
\* as before; and a measurement accepted after a stop succeeded stays in the
\* accumulator until the next stop takes it into its batch.
C11_StopFlushesAndContinues ==
    [][\A c \in Conns :
        /\ \A h \in pending[c] :
              (h.kind = "insert" /\ Resumes(c, h) /\ store' # store)
              => /\ measurements'[c] = <<>>
                 /\ readyState'[c] = readyState[c]
                 /\ userId'[c] = userId[c]
        /\ flushed'[c] > 0
           => \A i \in 1..Len(sinceStop'[c]) :
                 sinceStop'[c][i].seq > flushed'[c]
                 => \E j \in 1..Len(measurements'[c]) :
                       measurements'[c][j] = sinceStop'[c][i]]_vars

\* C12: a payload that is not JSON (whether or not an owner is bound) and a
\* message of an unrecognized type on an authenticated connection are each
\* answered by one error and nothing else: owner, accumulator, registry,
\* openness, waiting continuations and the record store are unchanged.
C12_ProtocolErrorChangesNothing ==
    [][\A c \in Conns :
        (/\ Handles(c) /\ readyState[c] = "OPEN"
         /\ \/ lastMsg'[c].type = "malformed"
            \/ /\ userId[c] # Null
               /\ lastMsg'[c].type \notin {"measurement", "stop", "ping"})
        => /\ sent'[c].type = "error" /\ sent'[c].req = nRecv'[c]
           /\ userId' = userId
           /\ measurements' = measurements
           /\ activeConnections' = activeConnections
           /\ readyState' = readyState /\ closeCode' = closeCode
           /\ pending' = pending
           /\ lastCall' = lastCall /\ store' = store]_vars

\* C12 witness: an unknown type was answered on an authenticated connection
\* whose accumulator holds a measurement.
C12_Witness ==
    \E c \in Conns :
        /\ Authenticated(c)
        /\ lastMsg[c].type = "bogus"
        /\ sent[c] = ErrorOut(nRecv[c], "Unknown message type")
        /\ Len(measurements[c]) > 0

\* C13: after the close event of a connection the registry holds no entry
\* that refers to it.
C13_ClosedConnectionNotRegistered ==
    \A c \in Conns :
        readyState[c] = "CLOSED" => \A u \in Users : activeConnections[u] # c

\* C14: the acknowledgement is sent and the timer armed at connect; every
\* tick of the timer of an open connection emits a heartbeat, whether or not
\* an owner is bound; heartbeats are emitted only by an armed timer on an
\* open connection; the close event cancels the timer, so that no heartbeat
\* follows it.
C14_HeartbeatForTheLifeOfTheConnection ==
    [][\A c \in Conns :
        /\ (readyState[c] = "NONE" /\ readyState'[c] # "NONE")
           => /\ sent'[c].type = "connection"
              /\ heartbeatTimer'[c]
        /\ (/\ left'.beats < left.beats
            /\ heartbeatTimer[c] /\ readyState[c] = "OPEN"
            /\ \A d \in Conns \ {c} : ~heartbeatTimer[d])
           => beats'[c] = beats[c] + 1
        /\ beats'[c] # beats[c] => (heartbeatTimer[c] /\ readyState[c] = "OPEN")
        /\ readyState'[c] = "CLOSED" => ~heartbeatTimer'[c]
        /\ readyState[c] = "CLOSED" => beats'[c] = beats[c]]_vars

\* C14 witness: a connection that beat before and after its owner was bound
\* has closed and its timer is cancelled.
C14_Witness ==
    \E c \in Conns :
        /\ readyState[c] = "CLOSED"
        /\ ~heartbeatTimer[c]
        /\ userId[c] # Null
        /\ beats[c] >= 2

\* An `authenticate` or a `stop` of the open connection c waits for its
\* collaborator (authenticateClient, insertMany).
AwaitsCollaborator(c) ==
    /\ readyState[c] = "OPEN"
    /\ \E h \in pending[c] : h.kind \in {"auth", "insert"}

\* C15: an `authenticate` or `stop` received on an open connection is
\* eventually answered, even when the collaborator never replies: no open
\* connection waits for its collaborator for ever.
C15_EveryRequestAnswered ==
    \A c \in Conns : AwaitsCollaborator(c) ~> ~AwaitsCollaborator(c)

\* C16: when the best-zone lookup of a valid measurement fails because the
\* record store is unavailable, the request is answered by an error (not by
\* a measurement_response), and the session stays open with its owner.
C16_ZoneFailureSurfaced ==
    [][\A c \in Conns : \A h \in pending[c] :
        (/\ h.kind = "zone" /\ Resumes(c, h)
         /\ fault' = Fault(c, h.id)
         /\ readyState[c] = "OPEN")
        => /\ sent'[c].type = "error" /\ sent'[c].req = h.id
           /\ readyState'[c] = "OPEN"
           /\ userId'[c] = userId[c]]_vars

\* C17: a best zone reported with hasData has a qualityScore strictly
\* greater than the score computed for the submitted measurement, in a
\* measurement_response and in the reply of the record path.
C17_BestZoneStrictlyBetter ==
    /\ \A c \in Conns :
          (sent[c].type = "measurement_response" /\ sent[c].hasData)
          => sent[c].bestScore > sent[c].score
    /\ (httpRes.status = 200 /\ httpRes.hasData)
       => httpRes.bestScore > httpRes.qualityScore

\* The documents of user uid in the collection bag within r metres.
OwnedWithin(bag, uid, lat, lon, r) ==
    {d \in BagToSet(bag) : d.userId = uid /\ WithinRadius(d, lat, lon, r)}

\* The result (hasData, best) is the one the candidates cand call for:
\* no data exactly when there is no candidate, otherwise the highest
\* qualityScore among them.
ZoneIs(hasData, best, cand) ==
    /\ hasData <=> cand # {}
    /\ cand # {} => /\ \E d \in cand : d.qualityScore = best
                    /\ \A d \in cand : d.qualityScore <= best

C19_RecordPathScoresLikeSession ==
    \A c \in Conns :
        (/\ sent[c].type = "measurement_response" /\ sent[c].req = nRecv[c]
         /\ lastMsg[c].type = "measurement"
         /\ lastMsg["http"].type = "record" /\ httpRes.status = 200
         /\ lastMsg["http"].payload = lastMsg[c].payload)
        => LET p == lastMsg[c].payload
               expected == IF Gt(p.downloadSpeed, 0) \/ Gt(p.uploadSpeed, 0)
                           THEN calculateEnhancedQualityScore(p.rsrq, p.sinr, p.cqi,
                                    OrZero(p.downloadSpeed), OrZero(p.uploadSpeed))
                           ELSE calculateQualityScore(p.rsrq, p.sinr, p.cqi)
           IN  /\ sent[c].score = httpRes.qualityScore
               /\ httpRes.qualityScore = expected

\* A Wi-Fi measurement as C20 has it: networkType 'wifi', a valid
\* coordinate, speed and latency metrics, no radio metrics.
IsWifiMeasurement(p) ==
    /\ p.networkType = "wifi"
    /\ isValidCoordinate(p.latitude, p.longitude)
    /\ IsNumber(p.downloadSpeed) /\ IsNumber(p.uploadSpeed) /\ IsNumber(p.latency)
    /\ ~IsNumber(p.rsrq) /\ ~IsNumber(p.sinr) /\ ~IsNumber(p.cqi)

\* C20: a Wi-Fi measurement (networkType 'wifi', valid coordinate, speeds
\* and latency, no radio metrics) is accepted and scored by the Wi-Fi
\* formula on both paths: the record route answers it with status 200 and
\* the Wi-Fi score unless the record store failed, and the session answers
\* it with a measurement_response carrying the Wi-Fi score.
C20_WifiAcceptedOnBothPaths ==
    /\ (/\ lastMsg["http"].type = "record"
        /\ IsWifiMeasurement(lastMsg["http"].payload)
        /\ fault # Fault("http", nRecv["http"]))
       => LET p == lastMsg["http"].payload
          IN  /\ httpRes.status = 200
              /\ httpRes.qualityScore =
                    calculateWiFiQualityScore(p.downloadSpeed, p.uploadSpeed, p.latency)
    /\ \A c \in Conns :
          (/\ lastMsg[c].type = "measurement"
           /\ IsWifiMeasurement(lastMsg[c].payload)
           /\ sent[c].req = nRecv[c])
          => LET p == lastMsg[c].payload
             IN  /\ sent[c].type = "measurement_response"
                 /\ sent[c].score =
                       calculateWiFiQualityScore(p.downloadSpeed, p.uploadSpeed, p.latency)

\* The radio metrics are numbers within their ranges (qualityScore.js:18-36).
ValidTriple(rsrq, sinr, cqi) ==
    /\ IsNumber(rsrq) /\ rsrq >= -20 /\ rsrq <= -3
    /\ IsNumber(sinr) /\ sinr >= -10 /\ sinr <= 30
    /\ IsNumber(cqi) /\ cqi >= 0 /\ cqi <= 15

\* C21: calculateQualityScore returns, for every triple within the ranges,
\* the integer round(clamp(0.5*sinr + 0.3*100*cqi/15 - 0.2*|rsrq|, 0, 100)),
\* which lies in [0,100], and throws for every triple with a value out of
\* its range or not a number.
C21_ScoreIsTheRoundedFormula ==
    (calc.fn = "calculateQualityScore" /\ calc.done)
    => IF ValidTriple(calc.rsrq, calc.sinr, calc.cqi)
       THEN /\ ~calc.threw
            /\ calc.score \in 0..100
            /\ calc.score = RoundTenths(Max(0, Min(1000,
                   5 * calc.sinr + 20 * calc.cqi - 2 * Abs(calc.rsrq))))
       ELSE calc.threw

\* C22: over the valid domain calculateQualityScore is monotone in each
\* argument, rounding and clamping included: with the other two fixed, a
\* higher sinr, a higher cqi or an rsrq closer to 0 never gives a lower
\* score.
C22_ScoreMonotone ==
    (/\ calc.fn = "calculateQualityScore" /\ calc.done
     /\ ValidTriple(calc.rsrq, calc.sinr, calc.cqi))
    => /\ \A s \in (calc.sinr + 1)..30 :
             calc.score <= calculateQualityScore(calc.rsrq, s, calc.cqi)
       /\ \A q \in (calc.cqi + 1)..15 :
             calc.score <= calculateQualityScore(calc.rsrq, calc.sinr, q)
       /\ \A r \in (calc.rsrq + 1)..(-3) :
             calc.score <= calculateQualityScore(r, calc.sinr, calc.cqi)

\* C22 witness: a score was returned that a higher sinr raises, that a
\* higher cqi raises, and that an rsrq one closer to 0 leaves as it is.
C22_Witness ==
    /\ calc.fn = "calculateQualityScore" /\ calc.done /\ ~calc.threw
    /\ calc.sinr < 30 /\ calc.cqi < 15 /\ calc.rsrq < -3
    /\ calc.score < calculateQualityScore(calc.rsrq, calc.sinr + 1, calc.cqi)
    /\ calc.score < calculateQualityScore(calc.rsrq, calc.sinr, calc.cqi + 1)
    /\ calc.score = calculateQualityScore(calc.rsrq + 1, calc.sinr, calc.cqi)

\* The tier of a score as C23 has it.
TierOf(score) ==
    IF score \in 80..100 THEN "Excellent"
    ELSE IF score \in 60..79 THEN "Good"
    ELSE IF score \in 40..59 THEN "Fair"
    ELSE IF score \in 20..39 THEN "Poor"
    ELSE "Very Poor"
\* A tier name in lower case, as a message spells it.
LowerCase(label) ==
    CASE label = "Excellent" -> "excellent"
      [] label = "Good" -> "good"
      [] label = "Fair" -> "fair"
      [] label = "Poor" -> "poor"
      [] label = "Very Poor" -> "very poor"

\* C23: getSignalQuality maps every score of 0..100 to its tier (80..100
\* Excellent, 60..79 Good, 40..59 Fair, 20..39 Poor, 0..19 Very Poor), and
\* the quality clause of the message generated for the same score, cellular
\* and Wi-Fi, names that same tier.
C23_MessageNamesTheTier ==
    calc.done
    => /\ calc.fn = "getSignalQuality" => calc.text = TierOf(calc.score)
       /\ calc.fn \in {"generateHumanMessage", "generateWiFiMessage"}
             => calc.text = LowerCase(getSignalQuality(calc.score))

\* C24: the averages of a session_summary (quality, rsrq, sinr, cqi,
\* download and upload speed) are the arithmetic means over the batch that
\* its stop flushed: each average times measurementCount equals the sum of
\* the values of the batch (the averages other than the quality are in
\* hundredths).
C24_AveragesAreTheMeans ==
    [][\A c \in Conns : \A h \in pending[c] :
          (h.kind = "insert" /\ Resumes(c, h) /\ sent'[c].type = "session_summary"
              /\ sent'[c].req = h.id)
          => LET st == sent'[c].statistics
                 n == sent'[c].count
                 b == h.batch
             IN  /\ st.averageQuality * n = Sum([i \in 1..Len(b) |-> b[i].qualityScore])
                 /\ st.averageRsrq * n = 100 * Sum([i \in 1..Len(b) |-> b[i].rsrq])
                 /\ st.averageSinr * n = 100 * Sum([i \in 1..Len(b) |-> b[i].sinr])
                 /\ st.averageCqi * n = 100 * Sum([i \in 1..Len(b) |-> b[i].cqi])
                 /\ st.averageDownloadSpeed * n
                       = 100 * Sum([i \in 1..Len(b) |-> b[i].downloadSpeed])
                 /\ st.averageUploadSpeed * n
                       = 100 * Sum([i \in 1..Len(b) |-> b[i].uploadSpeed])]_vars

\* Connection c takes this step: one of its 'message' events is handled or
\* one of its continuations runs.
StepOf(c) == Handles(c) \/ \E h \in pending[c] : Resumes(c, h)

\* C25: sessions are isolated per connection, also between two connections
\* of the same user: a step of one connection (a measurement, a stop, a
\* continuation) leaves every other connection's accumulator, waiting
\* handlers and last message as they are, and a batch it hands to the
\* record store holds exactly the elements of its own accumulator.
C25_SessionsIsolated ==
    [][\A c \in Conns : \A d \in Conns \ {c} :
          StepOf(c)
          => /\ measurements'[d] = measurements[d]
             /\ sinceStop'[d] = sinceStop[d]
             /\ pending'[d] = pending[d]
             /\ sent'[d] = sent[d]
             /\ lastCall' # lastCall
                   => lastCall' = Call(c, nRecv'[c], BatchOf(c, userId[c], measurements[c]))]_vars

\* C25 witness: two open connections of the same user; the first holds an
\* accepted measurement and the stop of the second was answered "No
\* measurements recorded".
C25_Witness ==
    /\ readyState["c1"] = "OPEN" /\ readyState["c2"] = "OPEN"
    /\ userId["c1"] # Null /\ userId["c1"] = userId["c2"]
    /\ Len(measurements["c1"]) = 1
    /\ lastMsg["c2"].type = "stop"
    /\ sent["c2"] = ErrorOut(nRecv["c2"], "No measurements recorded")
    /\ store = EmptyBag

\* The elements of an array.
Elements(arr) == {arr[i] : i \in 1..Len(arr)}

\* C26: no accepted measurement is lost while the connection stays open:
\* an element leaves the accumulator only in the step in which a stop
\* completes and persists it (a stop whose insert fails aside), so a
\* measurement that arrived while an earlier stop's insert was pending
\* stays for the next stop.
C26_NoAcceptedMeasurementLost ==
    [][\A c \in Conns : \A h \in pending[c] :
          (/\ Resumes(c, h) /\ readyState'[c] = "OPEN"
           /\ ~(h.kind = "insert" /\ store' = store))
          => \A e \in Elements(measurements[c]) :
                \/ e \in Elements(measurements'[c])
                \/ Doc(c, h.uid, e) \in BagToSet(store') \ BagToSet(store)]_vars

\* C27: each accepted measurement is written to the record store at most
\* once by its session: the store holds no document of a session twice,
\* also when a second stop arrives while the insert of the first is
\* pending.
C27_WrittenAtMostOnce ==
    \A doc \in BagToSet(store) : doc.conn \in Conns => CopiesIn(doc, store) <= 1

\* C28: every open, authenticated connection is the registry entry of its
\* user, and the closing of one connection removes no registry entry that
\* belongs to another connection that is still open, also when both are
\* authenticated as the same user.
C28_OpenConnectionsRegistered ==
    /\ [](\A c \in Conns :
             Authenticated(c) => activeConnections[userId[c]] = c)
    /\ [][\A c \in Conns :
             (readyState[c] # "CLOSED" /\ readyState'[c] = "CLOSED")
             => \A u \in Users :
                   (/\ activeConnections[u] \in Conns \ {c}
                    /\ readyState'[activeConnections[u]] = "OPEN")
                   => activeConnections'[u] = activeConnections[u]]_vars

C30_NoOutputOnceNotOpen ==
    [][\A c \in Conns :
          readyState[c] \in {"CLOSING", "CLOSED"}
          => sent'[c] = sent[c] /\ beats'[c] = beats[c]]_vars

\* C30 witness: an authentication failed and started the close with code
\* 4001; a later message was handled and its awaited authentication settled,
\* and the last output is still the error of the first message.
C30_Witness ==
    \E c \in Conns :
        /\ closeCode[c] = AuthFailedCode
        /\ readyState[c] \in {"CLOSING", "CLOSED"}
        /\ nRecv[c] >= 2
        /\ pending[c] = {}
        /\ sent[c].type = "error" /\ sent[c].req = 1

====
